---- MODULE Spec2Model ----
(***************************************************************************)
(* MandalaMind server: the NeuroSky ThinkGear client (neurosky.ts), the    *)
(* WebSocket fan-out and REST routes (routes.ts), the in-memory store      *)
(* (storage.ts) and the AI adapters' retry loops (gemini.ts, openai.ts).   *)
(***************************************************************************)
EXTENDS Integers, Sequences, FiniteSets, TLC

VARIABLES
  ns,        \* the NeuroSkyService object (fields, sockets, timers, awaits)
  hist,      \* history of the service run (what the user did last, ...)
  clients,   \* routes.ts: const clients = new Set<WebSocket>()
  ws,        \* the WebSocket connections the ws library knows
  sent,      \* messages sent to each WebSocket by the last handler
  sessions,  \* MemStorage.sessions
  mandalas,  \* MemStorage.mandalas
  eegData,   \* MemStorage.eegData
  gen,       \* POST /api/mandalas/generate requests awaiting the AI service
  resp,      \* the response POST /api/neurosky/connect has just sent, if any
  env,       \* what the outside world can do in this run (messages, draws)
  ai,        \* one call of an AI adapter's retry loop
  proto      \* the ThinkGear byte stream and the socket 'data' handler

vars ==
  <<ns, hist, clients, ws, sent, sessions, mandalas, eegData, gen, resp, env, ai, proto>>

(***************************************************************************)
(* Bounds                                                                  *)
(***************************************************************************)
MaxSockets == 2      \* net.Socket objects alive at once
MaxInFlight == 1     \* connect() calls awaiting the availability check
MaxDemoTimers == 2   \* setInterval timers alive at once
MaxAttemptsSeen == 6 \* cap on reconnectAttempts growth

(***************************************************************************)
(* Program constants                                                       *)
(***************************************************************************)
maxReconnectAttempts == 5

Null == <<>>     \* null: a nullable value is <<>> or <<v>>
Absent == <<>>   \* a JSON field that is missing or is not a number

Min(a, b) == IF a < b THEN a ELSE b
Max(a, b) == IF a > b THEN a ELSE b

(***************************************************************************)
(* NeuroSkyService                                                         *)
(***************************************************************************)
SockIds == 1..MaxSockets
Callers == {"ws", "timer", "restcheck", "rest"}

\* emit(type, ...): the listeners of routes.ts run in Listeners below
Emit(s, e) == [s EXCEPT !.emitted = Append(@, e)]

EvConnected == [type |-> "connected"]
EvDisconnected == [type |-> "disconnected"]
EvError(m) == [type |-> "error", message |-> m]
EvData(d) == [type |-> "data", data |-> d]

MsgGiveUp == "Could not reconnect to ThinkGear Connector after multiple attempts."
MsgNotRunning == "ThinkGear Connector is not running."

\* socket.destroy(): a live socket gets its 'close' event later
Destroy(socks, k) ==
  [socks EXCEPT ![k] = IF @ \in {"connecting", "open"} THEN "closing" ELSE @]

\* a closed Socket object nobody references any more is garbage
Release(s) ==
  [s EXCEPT !.socks = [k \in SockIds |->
      IF s.socks[k] = "closed" /\ s.socket # k THEN "none" ELSE s.socks[k]]]

DestroySocket(s) ==
  IF s.socket # 0
    THEN Release([s EXCEPT !.socks = Destroy(s.socks, s.socket), !.socket = 0])
    ELSE s

ClearReconnect(s) ==
  IF s.reconnectInterval # "null"
    THEN [s EXCEPT !.reconnectInterval = "null", !.delay = 0] ELSE s

ClearDemo(s) ==
  IF s.demoInterval
    THEN [s EXCEPT !.demoInterval = FALSE, !.demoTimers = @ - 1]
    ELSE s

startDemoMode(s) ==
  LET s1 == Emit([s EXCEPT !.isConnected = TRUE], EvConnected)
  IN [s1 EXCEPT !.demoInterval = TRUE, !.demoTimers = @ + 1]

\* a backoff without its cap
reconnectDelayUncapped(reconnectAttempts) == 5000 * 2 ^ reconnectAttempts

\* Math.min(30000, 5000 * Math.pow(2, this.reconnectAttempts))
reconnectDelay(reconnectAttempts) == Min(30000, 5000 * 2 ^ reconnectAttempts)

\* delay is the delay of the pending timeout, 0 when none is pending
scheduleReconnect(s) ==
  LET s1 == IF s.reconnectInterval # "null"
              THEN [s EXCEPT !.reconnectInterval =
                      IF @ = "pending" THEN "fired" ELSE @, !.delay = 0]
              ELSE s
  IN IF s1.autoConnect /\ s1.reconnectAttempts < maxReconnectAttempts
       THEN [s1 EXCEPT !.reconnectInterval = "pending",
                       !.delay = reconnectDelay(s1.reconnectAttempts)]
       ELSE s1

disconnect(s) ==
  LET s1 == ClearReconnect(s)
      s2 == ClearDemo(s1)
      s3 == DestroySocket(s2)
  IN Emit([s3 EXCEPT !.isConnected = FALSE, !.isAuthenticated = FALSE,
                     !.isDemoMode = FALSE, !.reconnectAttempts = 0],
          EvDisconnected)

enableDemoMode(s) ==
  LET s1 == [s EXCEPT !.isDemoMode = TRUE]
      s2 == DestroySocket(s1)
      s3 == ClearReconnect(s2)
  IN startDemoMode(s3)

disableDemoMode(s) ==
  LET s1 == ClearDemo([s EXCEPT !.isDemoMode = FALSE])
      s2 == Emit([s1 EXCEPT !.isConnected = FALSE], EvDisconnected)
  IN DestroySocket(s2)

\* a clamp that forgot its upper limit
ClampNoMin(lo, hi, x) == Max(lo, x)

\* Math.min(hi, Math.max(lo, x))
Clamp(lo, hi, x) == Min(hi, Max(lo, x))

\* Math.round of n/2 for an integer n: floor(n/2 + 1/2)
RoundHalf(n) == (n + 1) \div 2

\* Math.round(Math.max(0, Math.min(100, 100 - (poorSignalLevel / 200) * 100))),
\* computed on twice the value: 2 * (100 - p/2) = 200 - p
SignalQualityOf(p) == RoundHalf(Max(0, Min(200, 200 - p)))

Cur(s, f) == IF s.currentData = Null THEN 0 ELSE s.currentData[1][f]

\* an optional number is <<>> (missing, or not a number) or <<n>>
Has(x) == x # Absent

handleThinkGearMessage(s, m) ==
  IF ~s.isAuthenticated /\ m.status = "success"
    THEN Emit([s EXCEPT !.isAuthenticated = TRUE, !.reconnectAttempts = 0],
              EvConnected)
  ELSE IF ~s.isAuthenticated /\ m.status = "error"
    THEN Emit(s, EvError("Authentication failed"))
  ELSE IF ~s.isAuthenticated
    THEN s
  ELSE
    LET att == IF Has(m.attention) /\ m.attention[1] >= 0
                 THEN <<Clamp(0, 100, m.attention[1])>> ELSE Absent
        med == IF Has(m.meditation) /\ m.meditation[1] >= 0
                 THEN <<Clamp(0, 100, m.meditation[1])>> ELSE Absent
        sq  == IF Has(m.poorSignalLevel)
                 THEN <<SignalQualityOf(m.poorSignalLevel[1])>> ELSE Absent
        hasValidData == Has(att) \/ Has(med) \/ Has(sq)
        d == [attention     |-> IF Has(att) THEN att[1] ELSE Cur(s, "attention"),
              meditation    |-> IF Has(med) THEN med[1] ELSE Cur(s, "meditation"),
              signalQuality |-> IF Has(sq) THEN sq[1] ELSE Cur(s, "signalQuality")]
        s1 == IF hasValidData
                THEN Emit([s EXCEPT !.currentData = <<d>>], EvData(d)) ELSE s
        s2 == IF Has(m.blinkStrength) /\ m.blinkStrength[1] > 0
                THEN Emit(s1, [type |-> "blink"]) ELSE s1
        s3 == IF Has(m.rawEeg) THEN Emit(s2, [type |-> "rawEeg"]) ELSE s2
    IN IF m.eegPower THEN Emit(s3, [type |-> "eegPower"]) ELSE s3

\* ra, rm, rq: the rounded sums of the base curve and the noise; blink, power:
\* the outcomes of the Math.random() draws
generateDemoData(s, ra, rm, rq, blink, power) ==
  LET d == [attention     |-> Clamp(0, 100, ra),
            meditation    |-> Clamp(0, 100, rm),
            signalQuality |-> Clamp(30, 100, rq)]
      s1 == Emit([s EXCEPT !.currentData = <<d>>], EvData(d))
      s2 == IF blink THEN Emit(s1, [type |-> "blink"]) ELSE s1
  IN IF power THEN Emit(s2, [type |-> "eegPower"]) ELSE s2


(***************************************************************************)
(* WebSocket fan-out and the service's listeners (routes.ts)               *)
(***************************************************************************)
MaxClients == 2      \* browser connections
MaxEeg == 2          \* EegData records in the store
MaxSessions == 2     \* Session records in the store
MaxMandalas == 2     \* Mandala records in the store

WsIds == 1..MaxClients
EegIds == 1..MaxEeg
SessionIds == 1..MaxSessions
MandalaIds == 1..MaxMandalas

NoneSent == [c \in WsIds |-> <<>>]

\* a broadcast that sends to every client of the set, whatever its readyState
broadcastUnchecked(out, message) ==
  [c \in WsIds |-> IF c \in clients THEN Append(out[c], message) ELSE out[c]]

\* clients.forEach(client => { if (client.readyState === OPEN) client.send(message) })
broadcast(out, message) ==
  [c \in WsIds |->
     IF c \in clients /\ ws[c].readyState = "OPEN"
       THEN Append(out[c], message) ELSE out[c]]

\* neuroskyService.on('connected' | 'disconnected' | 'data' | 'error', ...)
OnEvent(out, e) ==
  IF e.type = "connected" THEN broadcast(out, [type |-> "neurosky_connected"])
  ELSE IF e.type = "disconnected" THEN broadcast(out, [type |-> "neurosky_disconnected"])
  ELSE IF e.type = "data" THEN broadcast(out, [type |-> "eeg_data", data |-> e.data])
  ELSE IF e.type = "error" THEN broadcast(out, [type |-> "neurosky_error"])
  ELSE out

RECURSIVE RelayEvents(_, _)
RelayEvents(out, evs) ==
  IF evs = <<>> THEN out ELSE RelayEvents(OnEvent(out, Head(evs)), Tail(evs))

RECURSIVE BroadcastAll(_, _)
BroadcastAll(out, msgs) ==
  IF msgs = <<>> THEN out ELSE BroadcastAll(broadcast(out, Head(msgs)), Tail(msgs))

\* an id generator that hands out an id already in use
randomUUIDColliding(used, ids) == CHOOSE i \in ids : \A j \in ids : i <= j

\* crypto.randomUUID(): an id no record has yet
randomUUID(used, ids) == CHOOSE i \in ids \ used : \A j \in ids \ used : i <= j

\* a Map replaced by a new one that holds the new entry alone
MapSetOnly(m, id, v) == [x \in {id} |-> v]

\* Map.prototype.set
MapSet(m, id, v) == [x \in DOMAIN m \cup {id} |-> IF x = id THEN v ELSE m[x]]

\* every session, active or not
getAllSessions == DOMAIN sessions

\* Array.from(this.sessions.values()).filter(session => session.isActive)
getActiveSessions == {id \in DOMAIN sessions : sessions[id]["isActive"] = <<TRUE>>}

addEegData(store, insertData) ==
  MapSet(store, randomUUID(DOMAIN store, EegIds), insertData)

\* for (const session of activeSessions) await storage.addEegData({...})
RECURSIVE StoreForSessions(_, _, _)
StoreForSessions(store, todo, d) ==
  IF todo = {} THEN store
  ELSE LET sid == CHOOSE i \in todo : \A j \in todo : i <= j
       IN StoreForSessions(
            addEegData(store, [sessionId |-> <<sid>>, attention |-> d.attention,
                               meditation |-> d.meditation,
                               signalQuality |-> d.signalQuality]),
            todo \ {sid}, d)

RECURSIVE StoreEvents(_, _)
StoreEvents(store, evs) ==
  IF evs = <<>> THEN store
  ELSE StoreEvents(
         IF Head(evs).type = "data"
           THEN StoreForSessions(store, getActiveSessions, Head(evs).data)
           ELSE store,
         Tail(evs))

DataEvents(evs) == SelectSeq(evs, LAMBDA e : e.type = "data")

\* the last neurosky_connected / neurosky_disconnected message broadcast
RECURSIVE LastConn(_, _)
LastConn(prev, msgs) ==
  IF msgs = <<>> THEN prev
  ELSE LastConn(IF Head(msgs).type \in {"neurosky_connected", "neurosky_disconnected"}
                  THEN Head(msgs).type ELSE prev,
                Tail(msgs))

EventMsgs(evs) ==
  [i \in 1..Len(evs) |->
     [type |-> CASE evs[i].type = "connected" -> "neurosky_connected"
                 [] evs[i].type = "disconnected" -> "neurosky_disconnected"
                 [] evs[i].type = "data" -> "eeg_data"
                 [] evs[i].type = "error" -> "neurosky_error"
                 [] OTHER -> "unheard"]]

NoResp == [route |-> "none", status |-> 0, connected |-> FALSE]

\* the end of a handler that ran the service: the service's listeners have run
\* on every event it emitted, then the route broadcast `extra`
Listeners(s, extra, r, h) ==
  /\ Cardinality(DOMAIN eegData)
       + Len(DataEvents(s.emitted)) * Cardinality(getActiveSessions) <= MaxEeg
  /\ ns' = Release(s)
  /\ sent' = BroadcastAll(RelayEvents(NoneSent, s.emitted), extra)
  /\ eegData' = StoreEvents(eegData, s.emitted)
  /\ resp' = r
  /\ hist' = [h EXCEPT !.lastConn = LastConn(hist.lastConn, EventMsgs(s.emitted) \o extra),
                        !.success = {k \in @ : Release(s).socks[k] = "open"}]
  /\ UNCHANGED <<clients, ws, sessions, mandalas, gen, env, ai>>

\* a handler that reads nothing from the socket
Finish(s, extra, r, h) == Listeners(s, extra, r, h) /\ UNCHANGED proto


(***************************************************************************)
(* The service's operations, callbacks and timers                          *)
(***************************************************************************)
\* the run's outside world: the messages the ThinkGear Connector may send, the
\* demo generator's draws, and the bodies of the REST requests the users make
Env(msgs, draws, posts, patches, gens) ==
  [messages |-> msgs, draws |-> draws, posts |-> posts, patches |-> patches,
   generates |-> gens]

InitService ==
  [autoConnect |-> FALSE, isDemoMode |-> FALSE, isConnected |-> FALSE,
   isAuthenticated |-> FALSE, reconnectAttempts |-> 0, reconnectInterval |-> "null",
   delay |-> 0,
   demoInterval |-> FALSE, demoTimers |-> 0, currentData |-> Null,
   socket |-> 0, socks |-> [k \in SockIds |-> "none"],
   inflight |-> [c \in Callers |-> 0], crashed |-> FALSE, emitted |-> <<>>]

\* success: the sockets that are open and have received a message with status
\* 'success' since they were opened
InitHist ==
  [userDisc |-> FALSE, autoAfterDisc |-> FALSE, lost |-> FALSE, gaveUp |-> FALSE,
   lastConn |-> "none", success |-> {}]

\* the handler starts with nothing emitted yet
Begin == [ns EXCEPT !.emitted = <<>>]

\* the user asked for something: the effects of the previous request are over
UserOp(h) ==
  [h EXCEPT !.userDisc = FALSE, !.autoAfterDisc = FALSE, !.lost = FALSE,
            !.gaveUp = FALSE]

Running == ~ns.crashed

\* connect() up to its first await: demo mode starts the generator and returns,
\* otherwise the call awaits checkThinkGearConnector()
connectCall(s, caller) ==
  IF s.isDemoMode THEN startDemoMode(s)
  ELSE [s EXCEPT !.inflight[caller] = @ + 1]

InFlight(s) ==
  s.inflight["ws"] + s.inflight["timer"] + s.inflight["restcheck"] + s.inflight["rest"]

CanCallConnect(s, caller) ==
  IF s.isDemoMode THEN s.demoTimers < MaxDemoTimers
  ELSE InFlight(s) < MaxInFlight

\* connect() after the await, ThinkGear Connector not available: the catch block
connectFail(s, caller) ==
  [s EXCEPT !.inflight[caller] = @ - 1, !.reconnectAttempts = @ + 1]

FreeSocks(s) == {k \in SockIds : s.socks[k] = "none"}

\* connect() after the await, ThinkGear Connector available: a new Socket
connectOpen(s, caller) ==
  LET k == CHOOSE i \in FreeSocks(s) : \A j \in FreeSocks(s) : i <= j
  IN [s EXCEPT !.inflight[caller] = @ - 1, !.socks[k] = "connecting",
               !.socket = k, !.isConnected = FALSE, !.isAuthenticated = FALSE]

\* WebSocket message 'connect_neurosky': await neuroskyService.connect()
Connect ==
  /\ Running
  /\ CanCallConnect(ns, "ws")
  /\ Finish(connectCall(Begin, "ws"), <<>>, NoResp, UserOp(hist))

\* POST /api/neurosky/connect up to its first await
RestConnect ==
  /\ Running
  /\ InFlight(ns) < MaxInFlight
  /\ Finish([Begin EXCEPT !.reconnectAttempts = 0, !.inflight["restcheck"] = @ + 1],
            <<>>, NoResp, UserOp(hist))

\* POST /api/neurosky/connect after its own availability check
RestChecked ==
  /\ Running
  /\ ns.inflight["restcheck"] > 0
  /\ \E available \in BOOLEAN :
       LET s0 == [Begin EXCEPT !.inflight["restcheck"] = @ - 1]
       IN IF ~available
            THEN Finish(s0, <<>>,
                        [route |-> "connect", status |-> 503,
                         connected |-> s0.isConnected], hist)
          ELSE /\ CanCallConnect(s0, "rest")
               /\ LET s1 == connectCall(s0, "rest")
                  IN IF s0.isDemoMode
                       THEN Finish(s1, <<[type |-> "neurosky_connected"]>>,
                                   [route |-> "connect", status |-> 200,
                                    connected |-> s1.isConnected], hist)
                       ELSE Finish(s1, <<>>, NoResp, hist)

\* connect() resumes after `await checkThinkGearConnector()`
ConnectChecked ==
  /\ Running
  /\ \E caller \in {"ws", "timer", "rest"}, available \in BOOLEAN :
       /\ ns.inflight[caller] > 0
       /\ IF ~available
            THEN /\ ns.reconnectAttempts < MaxAttemptsSeen
                 /\ LET s1 == connectFail(Begin, caller)
                        giveUp == caller = "timer"
                                    /\ s1.reconnectAttempts >= maxReconnectAttempts
                        s2 == IF giveUp THEN Emit(s1, EvError(MsgGiveUp)) ELSE s1
                    IN Finish(s2,
                              IF caller = "rest"
                                THEN <<[type |-> "neurosky_error"]>> ELSE <<>>,
                              IF caller = "rest"
                                THEN [route |-> "connect", status |-> 500,
                                      connected |-> s2.isConnected]
                                ELSE NoResp,
                              [hist EXCEPT !.gaveUp = @ \/ giveUp,
                                           !.lost = @ /\ ~giveUp])
            ELSE /\ FreeSocks(ns) # {}
                 /\ LET s1 == connectOpen(Begin, caller)
                    IN Finish(s1,
                              IF caller = "rest"
                                THEN <<[type |-> "neurosky_connected"]>> ELSE <<>>,
                              IF caller = "rest"
                                THEN [route |-> "connect", status |-> 200,
                                      connected |-> s1.isConnected]
                                ELSE NoResp,
                              hist)

\* WebSocket message 'disconnect_neurosky' / POST /api/neurosky/disconnect
Disconnect ==
  /\ Running
  /\ \E via \in {"ws", "rest"} :
       LET s1 == disconnect(Begin)
       IN Finish(s1,
                 IF via = "rest" THEN <<[type |-> "neurosky_disconnected"]>> ELSE <<>>,
                 NoResp,
                 [UserOp(hist) EXCEPT !.userDisc = TRUE])

\* WebSocket message 'enable_demo' / POST /api/neurosky/demo/enable
EnableDemo ==
  /\ Running
  /\ \E via \in {"ws", "rest"} :
       LET s0 == Begin
           s1 == IF s0.isConnected THEN disconnect(s0) ELSE s0
       IN /\ s1.demoTimers < MaxDemoTimers
          /\ Finish(enableDemoMode(s1),
                    IF via = "rest" THEN <<[type |-> "demo_enabled"]>> ELSE <<>>,
                    NoResp,
                    UserOp(hist))

\* WebSocket message 'disable_demo' / POST /api/neurosky/demo/disable
DisableDemo ==
  /\ Running
  /\ \E via \in {"ws", "rest"} :
       Finish(disableDemoMode(Begin),
              IF via = "rest" THEN <<[type |-> "demo_disabled"]>> ELSE <<>>,
              NoResp,
              UserOp(hist))


\* the reconnect timer of scheduleReconnect fires
TimerFire ==
  /\ Running
  /\ ns.reconnectInterval = "pending"
  /\ ns.reconnectAttempts < MaxAttemptsSeen
  /\ LET s0 == [Begin EXCEPT !.reconnectInterval = "fired", !.delay = 0,
                             !.reconnectAttempts = @ + 1]
     IN /\ CanCallConnect(s0, "timer")
        /\ Finish(connectCall(s0, "timer"), <<>>, NoResp,
                  [hist EXCEPT !.autoAfterDisc = @ \/ hist.userDisc])

\* socket.on('connect'): this.socket!.write(...) throws when this.socket is null;
\* the exception leaves the handler and either ends the process or is swallowed
\* by a process-level handler
SocketConnect ==
  /\ Running
  /\ \E k \in SockIds :
       /\ ns.socks[k] = "connecting"
       /\ LET s1 == [Begin EXCEPT !.socks[k] = "open", !.isConnected = TRUE]
          IN IF ns.socket = 0
               THEN \E dies \in BOOLEAN :
                      Finish([s1 EXCEPT !.crashed = dies], <<>>, NoResp, hist)
               ELSE Finish(s1, <<>>, NoResp, hist)

\* an established connection: the socket this.socket refers to, authenticated
Established(k) ==
  ns.socket = k /\ ns.socks[k] = "open" /\ ns.isAuthenticated

\* socket.on('error'); the 'close' event follows
SocketError ==
  /\ Running
  /\ \E k \in SockIds :
       /\ ns.socks[k] \in {"connecting", "open"}
       /\ Finish(Emit([Begin EXCEPT !.socks[k] = "closing", !.isConnected = FALSE,
                                    !.isAuthenticated = FALSE],
                      EvError("Connection error")),
                 <<>>, NoResp,
                 [hist EXCEPT !.lost = @ \/ (Established(k) /\ ns.autoConnect)])

\* socket.on('close'): after destroy(), after an error, or the peer closed
SocketClose ==
  /\ Running
  /\ \E k \in SockIds :
       /\ ns.socks[k] \in {"closing", "open"}
       /\ LET s1 == Emit([Begin EXCEPT !.socks[k] = "closed", !.isConnected = FALSE,
                                       !.isAuthenticated = FALSE],
                         EvDisconnected)
              s2 == IF s1.autoConnect /\ s1.reconnectAttempts < maxReconnectAttempts
                      THEN scheduleReconnect(s1) ELSE s1
          IN Finish(s2, <<>>, NoResp,
                    [hist EXCEPT !.lost = @ \/ (Established(k) /\ ns.autoConnect)])

NoFields ==
  [status |-> "none", attention |-> Absent, meditation |-> Absent,
   poorSignalLevel |-> Absent, blinkStrength |-> Absent, rawEeg |-> Absent,
   eegPower |-> FALSE]

StatusMessages == {[NoFields EXCEPT !.status = st] : st \in {"success", "error"}}

\* socket.on('data') with one JSON message in the chunk
SocketMessage(k, m) ==
  /\ Running
  /\ ns.socks[k] = "open"
  /\ Finish(handleThinkGearMessage(Begin, m), <<>>, NoResp,
            [hist EXCEPT !.lost = @ /\ ~(~ns.isAuthenticated /\ m.status = "success"),
                         !.success = IF m.status = "success" THEN @ \cup {k} ELSE @])

SocketData == \E k \in SockIds, m \in env.messages : SocketMessage(k, m)

\* a demo setInterval timer ticks
DemoTick ==
  /\ Running
  /\ ns.demoTimers > 0
  /\ \E d \in env.draws :
       Finish(generateDemoData(Begin, d.attention, d.meditation, d.signalQuality,
                               d.blink, d.power),
              <<>>, NoResp, hist)

\* no adapter call is running
AiIdle ==
  [pc |-> "idle", adapter |-> "gemini", fn |-> "prompt", options |-> Null,
   prompt |-> "", attempt |-> 0, calls |-> 0, waits |-> <<>>, outcomes |-> <<>>,
   result |-> Null]

\* the ThinkGear Connector has written nothing yet
NoStream == [stream |-> "", written |-> <<>>, passed |-> <<>>]

Idle ==
  /\ clients = {}
  /\ ws = [c \in WsIds |-> [readyState |-> "NONE", gone |-> FALSE]]
  /\ sent = NoneSent
  /\ sessions = <<>>
  /\ mandalas = <<>>
  /\ eegData = <<>>
  /\ gen = <<>>
  /\ resp = NoResp
  /\ ai = AiIdle
  /\ proto = NoStream
  /\ hist = InitHist

\* the ThinkGear Connector of a run that is about connection handling: the two
\* status messages, one eSense message and one blink
ControlMessages ==
  StatusMessages
  \cup {[NoFields EXCEPT !.attention = <<60>>, !.meditation = <<40>>,
                          !.poorSignalLevel = <<25>>],
        [NoFields EXCEPT !.blinkStrength = <<55>>]}

ControlDraws ==
  {[attention |-> 60, meditation |-> 40, signalQuality |-> 88,
    blink |-> FALSE, power |-> FALSE]}

InitNeuro ==
  /\ ns \in {[InitService EXCEPT !.autoConnect = a] : a \in BOOLEAN}
  /\ env = Env(ControlMessages, ControlDraws, <<>>, <<>>, <<>>)
  /\ Idle

NextNeuro ==
  \/ Connect
  \/ RestConnect
  \/ RestChecked
  \/ ConnectChecked
  \/ Disconnect
  \/ EnableDemo
  \/ DisableDemo
  \/ TimerFire
  \/ SocketConnect
  \/ SocketError
  \/ SocketClose
  \/ SocketData
  \/ DemoTick

SpecNeuro == InitNeuro /\ [][NextNeuro]_vars


(***************************************************************************)
(* Claims about the service's connection handling                          *)
(***************************************************************************)

\* C6: after a user-initiated disconnect() has returned, and until the user asks
\* for a connection again, no reconnection timer is pending and no automatic
\* reconnection attempt is started, whenever the destroyed socket's 'close'
\* event arrives.
C6_NoReconnectAfterDisconnect ==
  hist.userDisc => (ns.reconnectInterval # "pending" /\ ~hist.autoAfterDisc)

\* a reconnection attempt is scheduled or under way
ReconnectInProgress ==
  \/ ns.reconnectInterval = "pending"
  \/ ns.inflight["timer"] > 0
  \/ \E k \in SockIds : ns.socks[k] \in {"connecting", "open", "closing"}

\* C7: with autoConnect, once an established connection is lost and the user
\* does nothing, the client is always either about to retry or retrying, until
\* an attempt authenticates or it gives up with the 'Could not reconnect' error;
\* it never silently stops in between.
C7_KeepsRetrying ==
  (hist.lost /\ ~ns.crashed) => ReconnectInProgress


\* C14: when POST /api/neurosky/connect answers success (and broadcasts
\* neurosky_connected), getConnectionStatus() is true at the time of the answer.
C14_ConnectedWhenAnswered ==
  (resp.route = "connect" /\ resp.status = 200) => resp.connected


\* the delays of the claim, for reconnectAttempts = 0, 1, 2, 3, 4
Delays == <<5000, 10000, 20000, 30000, 30000>>

\* a reconnect timeout was created in the step
Scheduled == ns'.reconnectInterval = "pending" /\ ns'.delay # ns.delay

\* C16: a reconnect is scheduled after min(30000, 5000 * 2^reconnectAttempts)
\* milliseconds: 5000, 10000, 20000, 30000, 30000 for the attempts 0 to 4, a
\* delay that never decreases with the attempts and stays within 5000..30000.
C16_ReconnectDelay ==
  /\ [](ns.reconnectInterval = "pending" => ns.delay \in 5000..30000)
  /\ [](\A a, b \in 0..(maxReconnectAttempts - 1) :
          a <= b => reconnectDelay(a) <= reconnectDelay(b))
  /\ [][Scheduled => /\ ns'.reconnectAttempts \in 0..(maxReconnectAttempts - 1)
                     /\ ns'.delay = Delays[ns'.reconnectAttempts + 1]]_vars

\* the fifth reconnect was scheduled, again after 30 seconds
C16_Witness ==
  /\ ns.reconnectInterval = "pending"
  /\ ns.reconnectAttempts = 4
  /\ ns.delay = 30000


\* C17: reconnectAttempts is always within 0..maxReconnectAttempts.
C17_AttemptsBounded == ns.reconnectAttempts \in 0..maxReconnectAttempts


\* the kinds of the events a handler emitted
EmittedTypes(s) == {s.emitted[i].type : i \in DOMAIN s.emitted}

DataEventTypes == {"data", "blink", "rawEeg", "eegPower"}

\* C18: a message received on a connection that has not received a message
\* with status 'success' before, and that is not such a message itself, makes
\* the service emit no 'data', 'blink', 'rawEeg' or 'eegPower' event and leaves
\* currentData as it was; a received message makes the service emit
\* 'connected' exactly when it is the first message with status 'success' on
\* its connection.
C18_DataOnlyAfterSuccess ==
  [][\A k \in SockIds, m \in env.messages :
       SocketMessage(k, m) =>
         /\ (k \notin hist.success /\ m.status # "success")
              => /\ EmittedTypes(ns') \cap DataEventTypes = {}
                 /\ ns'.currentData = ns.currentData
         /\ ("connected" \in EmittedTypes(ns'))
              <=> (k \notin hist.success /\ m.status = "success")]_vars


\* a Socket that is connecting or connected and has not been destroyed
ActiveSockets == {k \in SockIds : ns.socks[k] \in {"connecting", "open"}}

\* C19: in every reachable state, no demo generator timer is running while a
\* device socket is active.
C19_DemoExcludesDevice == ~(ns.demoTimers > 0 /\ ActiveSockets # {})


\* C20: after disconnect() no call of connect() that was in flight opens a
\* socket or makes the service connected: as long as the user's last request
\* is a disconnect and the reconnect timer has not called connect() since, the
\* service holds no socket and isConnected is false.
C20_DisconnectWins ==
  (hist.userDisc /\ ~hist.autoAfterDisc)
    => (ns.socket = 0 /\ ActiveSockets = {} /\ ~ns.isConnected)


\* C21: at most one demo setInterval timer is alive, and while the user's last
\* request is a disconnect none is alive, so that no demo 'data' event can
\* follow.
C21_OneDemoGenerator ==
  /\ ns.demoTimers <= 1
  /\ hist.userDisc => ns.demoTimers = 0


\* C22: while demo mode is enabled, its generator is running and the service
\* holds no device socket, getConnectionStatus() is true and the last
\* connection message broadcast is neurosky_connected, whenever the 'close'
\* event of a socket destroyed earlier arrives.
C22_DemoMeansConnected ==
  (ns.isDemoMode /\ ns.demoTimers > 0 /\ ns.socket = 0 /\ ActiveSockets = {})
    => (ns.isConnected /\ hist.lastConn = "neurosky_connected")


(***************************************************************************)
(* The values of the samples: a run with every kind of eSense message      *)
(***************************************************************************)
Only(f, v) ==
  [NoFields EXCEPT !.attention = IF f = "attention" THEN <<v>> ELSE Absent,
                   !.meditation = IF f = "meditation" THEN <<v>> ELSE Absent,
                   !.poorSignalLevel = IF f = "poorSignalLevel" THEN <<v>> ELSE Absent]

\* the parsed JSON objects the ThinkGear Connector sends: messages with one
\* field, below, in and above its range, and messages with all three
Messages ==
  StatusMessages
  \cup {Only("attention", v) : v \in {-1, 150, 1000000}}
  \cup {Only("meditation", v) : v \in {-5, 101}}
  \cup {Only("poorSignalLevel", v) : v \in {-10, 25, 400}}
  \cup {[NoFields EXCEPT !.attention = <<0>>, !.meditation = <<0>>,
                          !.poorSignalLevel = <<200>>]}

\* what Math.round(base + noise) can be in generateDemoData: attention within
\* -8..80, meditation within -17..89, signal quality within 42..99
DemoDraws ==
  {[attention |-> -8, meditation |-> -17, signalQuality |-> 42,
    blink |-> FALSE, power |-> FALSE],
   [attention |-> 80, meditation |-> 89, signalQuality |-> 88,
    blink |-> TRUE, power |-> TRUE]}

InitValues ==
  /\ ns = InitService
  /\ env = Env(Messages, DemoDraws, <<>>, <<>>, <<>>)
  /\ Idle

NextValues ==
  \/ Connect
  \/ ConnectChecked
  \/ SocketConnect
  \/ SocketData
  \/ EnableDemo
  \/ DemoTick
  \/ Disconnect

SpecValues == InitValues /\ [][NextValues]_vars

Percent(x) == x \in 0..100

SampleInRange(d) ==
  Percent(d.attention) /\ Percent(d.meditation) /\ Percent(d.signalQuality)

\* C1: every sample the service emits as a 'data' event, from ThinkGear
\* messages or from the demo generator, has attention, meditation and
\* signalQuality within 0..100.
C1_EmittedSamplesInRange ==
  \A i \in 1..Len(ns.emitted) :
    ns.emitted[i].type = "data" => SampleInRange(ns.emitted[i].data)

\* a sample was emitted whose attention and signal quality had to be clamped
\* (attention 150, poorSignalLevel 400), its meditation carried over from the
\* demo generator's last sample
C1_Witness ==
  \E i \in 1..Len(ns.emitted) :
    /\ ns.emitted[i].type = "data"
    /\ ns.emitted[i].data = [attention |-> 100, meditation |-> 89, signalQuality |-> 0]


(***************************************************************************)
(* WebSocket connections (routes.ts, wss.on('connection'))                 *)
(***************************************************************************)
\* a handler of routes.ts that does not run the service
Quiet ==
  /\ ns' = [ns EXCEPT !.emitted = <<>>]
  /\ resp' = NoResp
  /\ UNCHANGED <<hist, sessions, mandalas, eegData, gen, env, ai, proto>>

\* wss.on('connection'): the ws library hands over an OPEN connection
WsConnection ==
  \E c \in WsIds :
    /\ ws[c].readyState = "NONE"
    /\ ws' = [ws EXCEPT ![c] = [readyState |-> "OPEN", gone |-> FALSE]]
    /\ clients' = clients \cup {c}
    /\ sent' = [NoneSent EXCEPT ![c] =
                  <<[type |-> "connection_status", connected |-> ns.isConnected,
                     currentData |-> ns.currentData]>>]
    /\ Quiet

\* the closing handshake has begun: readyState is CLOSING, no event yet
WsClosing ==
  \E c \in WsIds :
    /\ ws[c].readyState = "OPEN"
    /\ ws' = [ws EXCEPT ![c].readyState = "CLOSING"]
    /\ sent' = NoneSent
    /\ UNCHANGED clients
    /\ Quiet

\* ws.on('error'); the 'close' event follows
WsError ==
  \E c \in WsIds :
    /\ ws[c].readyState \in {"OPEN", "CLOSING"}
    /\ ~ws[c].gone
    /\ ws' = [ws EXCEPT ![c] = [readyState |-> "CLOSING", gone |-> TRUE]]
    /\ clients' = clients \ {c}
    /\ sent' = NoneSent
    /\ Quiet

\* ws.on('close')
WsClose ==
  \E c \in WsIds :
    /\ ws[c].readyState \in {"OPEN", "CLOSING"}
    /\ ws' = [ws EXCEPT ![c] = [readyState |-> "CLOSED", gone |-> TRUE]]
    /\ clients' = clients \ {c}
    /\ sent' = NoneSent
    /\ Quiet

\* a closed WebSocket object is garbage; the browser may connect again
WsForget ==
  \E c \in WsIds :
    /\ ws[c].readyState = "CLOSED"
    /\ ws' = [ws EXCEPT ![c] = [readyState |-> "NONE", gone |-> FALSE]]
    /\ sent' = NoneSent
    /\ UNCHANGED clients
    /\ Quiet

\* routes.ts:14: new NeuroSkyService({ autoConnect: false }); the browsers come
\* and go and the users run the demo generator
InitRelay ==
  /\ ns = InitService
  /\ env = Env(ControlMessages, ControlDraws, <<>>, <<>>, <<>>)
  /\ Idle

NextRelay ==
  \/ WsConnection
  \/ WsClosing
  \/ WsError
  \/ WsClose
  \/ WsForget
  \/ EnableDemo
  \/ DisableDemo
  \/ Disconnect
  \/ DemoTick

SpecRelay == InitRelay /\ [][NextRelay]_vars

\* a connection that was opened and has had neither 'close' nor 'error'
Live(c) == ws[c].readyState # "NONE" /\ ~ws[c].gone

EegSent(c) == Len(SelectSeq(sent[c], LAMBDA m : m.type = "eeg_data"))

\* C5: each 'data' event of the service reaches every client that is connected,
\* not closed or errored, and OPEN, as exactly one eeg_data message, and reaches
\* no other client; the clients set holds exactly the connections opened and
\* not yet closed or errored.
C5_DataRelayedToLiveClients ==
  /\ clients = {c \in WsIds : Live(c)}
  /\ \A c \in WsIds :
       EegSent(c) = IF Live(c) /\ ws[c].readyState = "OPEN"
                      THEN Len(DataEvents(ns.emitted)) ELSE 0

\* a 'data' event was relayed to one client while another had already closed
\* or was closing
C5_Witness ==
  /\ DataEvents(ns.emitted) # <<>>
  /\ \E c, d \in WsIds :
       /\ EegSent(c) = 1
       /\ ws[d].readyState \in {"CLOSING", "CLOSED"}
       /\ EegSent(d) = 0


\* the client hook (use-websocket.tsx): useState(null), useState(false)
HookInit == [eegData |-> Null, neuroskyConnected |-> FALSE]

\* message.data?.f of a parsed message: undefined when the message has no data
\* or the data has no f
DataField(message, f) ==
  IF "data" \in DOMAIN message /\ f \in DOMAIN message.data THEN <<message.data[f]>> ELSE Null

\* ws.current.onmessage, as far as neuroskyConnected and eegData go
onmessage(state, message) ==
  IF message.type = "eeg_data"
    THEN IF "data" \in DOMAIN message THEN [state EXCEPT !.eegData = <<message.data>>]
         ELSE state
  ELSE IF message.type = "neurosky_connected" THEN [state EXCEPT !.neuroskyConnected = TRUE]
  ELSE IF message.type = "neurosky_disconnected"
    THEN [state EXCEPT !.neuroskyConnected = FALSE]
  ELSE IF message.type = "connection_status"
    THEN LET connected == DataField(message, "connected")
             currentData == DataField(message, "currentData")
         IN [neuroskyConnected |-> connected = <<TRUE>>,
             eegData |-> IF currentData \notin {Null, <<Null>>}
                           THEN currentData[1] ELSE state.eegData]
  ELSE state

\* C15: the connection_status message sent to a new client brings the hook in
\* line with the server: neuroskyConnected equals getConnectionStatus() and,
\* when the server has current data, eegData equals it.
C15_StatusMessageSyncsClient ==
  \A c \in WsIds : \A k \in 1..Len(sent[c]) :
    sent[c][k].type = "connection_status" =>
      LET hook == onmessage(HookInit, sent[c][k])
      IN /\ hook.neuroskyConnected = ns.isConnected
         /\ ns.currentData # Null => hook.eegData = ns.currentData


\* the element of a one-element set: in The({e(x) : x \in {v}}) the value v is
\* computed once, however often e uses x
The(S) == CHOOSE x \in S : TRUE


(***************************************************************************)
(* JavaScript strings                                                      *)
(***************************************************************************)
Char(text, i) == SubSeq(text, i, i)

WhiteSpace == {" ", "\t", "\n", "\r"}

RECURSIVE trimStart(_)
trimStart(text) ==
  IF text # "" /\ Char(text, 1) \in WhiteSpace
    THEN trimStart(SubSeq(text, 2, Len(text))) ELSE text

RECURSIVE trimEnd(_)
trimEnd(text) ==
  IF text # "" /\ Char(text, Len(text)) \in WhiteSpace
    THEN trimEnd(SubSeq(text, 1, Len(text) - 1)) ELSE text

\* String.prototype.trim
trim(text) == trimEnd(trimStart(text))

\* String.prototype.indexOf from position i, 0 when there is none
RECURSIVE indexOf(_, _, _)
indexOf(text, c, i) ==
  IF i > Len(text) THEN 0
  ELSE IF Char(text, i) = c THEN i
  ELSE indexOf(text, c, i + 1)

\* String.prototype.split
RECURSIVE split(_, _)
split(text, separator) ==
  LET i == indexOf(text, separator, 1)
  IN IF i = 0 THEN <<text>>
     ELSE <<SubSeq(text, 1, i - 1)>> \o split(SubSeq(text, i + 1, Len(text)), separator)

UpperCase == "ABCDEFGHIJKLMNOPQRSTUVWXYZ"
LowerCase == "abcdefghijklmnopqrstuvwxyz"

\* the lower-case letter of each capital
Lower ==
  [c \in {Char(UpperCase, i) : i \in 1..Len(UpperCase)} |->
     Char(LowerCase, indexOf(UpperCase, c, 1))]

\* String.prototype.toLowerCase
RECURSIVE toLowerCase(_)
toLowerCase(text) ==
  The({IF t = "" THEN ""
       ELSE IF Len(t) = 1
         THEN IF t \in DOMAIN Lower THEN Lower[t] ELSE t
       ELSE toLowerCase(SubSeq(t, 1, Len(t) \div 2))
            \o toLowerCase(SubSeq(t, Len(t) \div 2 + 1, Len(t))) : t \in {text}})

\* String.prototype.includes
includes(text, word) ==
  \E t \in {text} : \E i \in 1..(Len(t) - Len(word) + 1) : SubSeq(t, i, i + Len(word) - 1) = word

\* runs of consecutive character codes: the code of the first, the characters
CodeRuns ==
  {<<32, " ">>, <<39, "'">>, <<44, ",-.">>, <<48, "0123456789:">>, <<65, UpperCase>>,
   <<97, LowerCase>>, <<124, "|">>}

CharCodes ==
  [c \in UNION {{Char(run[2], k) : k \in 1..Len(run[2])} : run \in CodeRuns} |->
     CHOOSE n \in 32..126 :
       \E run \in CodeRuns : \E k \in 1..Len(run[2]) :
         Char(run[2], k) = c /\ n = run[1] + k - 1]

\* String.prototype.charCodeAt, counting from 1
charCodeAt(text, i) == CharCodes[Char(text, i)]


(***************************************************************************)
(* The AI adapters (gemini.ts, openai.ts): prompt and image generation     *)
(***************************************************************************)
promptAttempts == 3   \* for (let attempt = 1; attempt <= 3; attempt++)
imageAttempts == 2    \* for (let attempt = 1; attempt <= 2; attempt++)

MaxDots == 2          \* dots or petals of a ring that are drawn

Adapters == {"gemini", "openai"}

\* if (x > 70) ... else if (x < 30) ... else ...
Band(x, high, low, middle) == IF x > 70 THEN high ELSE IF x < 30 THEN low ELSE middle

\* the texts are shortened; the themes other than peace are mentioned by no
\* transcript used below and add nothing
getFallbackPrompt(options) ==
  LET voiceTranscript == options.voiceTranscript
      brainwaveData == options.brainwaveData
  IN "Create an exquisite traditional dot painting mandala masterpiece. "
     \o Band(brainwaveData.attention, "Ultra-precise geometric dot patterns. ",
             "Soft, organic dot patterns. ", "Balanced dot patterns. ")
     \o Band(brainwaveData.meditation, "Deep, peaceful dot gradients. ",
             "Dynamic, energetic dot work. ", "Centered, grounded dot patterns. ")
     \o "Color scheme: vibrant. "
     \o (IF Len(voiceTranscript) > 5
            /\ (includes(toLowerCase(voiceTranscript), "peace")
                \/ includes(toLowerCase(voiceTranscript), "calm"))
           THEN "Incorporate symbols of inner peace. " ELSE "")
     \o "Design aesthetic: spiritual. "
     \o "Each dot placed with intention."

\* hash = ((hash << 5) - hash) + char; hash = hash & hash, for the characters
\* i to j of the text in turn: the 32-bit integer is kept as two 16-bit halves
\* <<high, low>>
RECURSIVE HashFrom(_, _, _, _)
HashFrom(hash, text, i, j) ==
  IF i > j THEN hash
  ELSE IF i = j
    THEN The({<<(31 * h[1] + (31 * h[2] + char) \div 65536) % 65536,
                (31 * h[2] + char) % 65536>> :
                h \in {hash}, char \in {charCodeAt(text, i)}})
  ELSE The({The({HashFrom(h, text, half + 1, j) : h \in {HashFrom(hash, text, i, half)}}) :
              half \in {(i + j) \div 2}})

\* Math.abs of the signed 32-bit integer
Abs32(hash) ==
  The({IF h[1] < 32768 THEN h[1] * 65536 + h[2]
       ELSE (65535 - h[1]) * 65536 + (65536 - h[2]) : h \in {hash}})

\* gemini hashes prompt + attention + meditation + signalQuality, openai hashes
\* prompt.toLowerCase().trim() + `|${attention}|${meditation}|${signalQuality}`
createSeedFromInput(adapter, prompt, brainwaveData) ==
  LET a == ToString(brainwaveData.attention)
      m == ToString(brainwaveData.meditation)
      q == ToString(brainwaveData.signalQuality)
  IN The({Abs32(HashFrom(<<0, 0>>, seedString, 1, Len(seedString))) :
            seedString \in {IF adapter = "gemini" THEN prompt \o a \o m \o q
                            ELSE trim(toLowerCase(prompt)) \o "|" \o a \o "|" \o m \o "|" \o q}})

\* a number in [0, 1) is the fraction n / d
Fraction(n, d) == [n |-> n, d |-> d]

\* the closure over currentSeed, before its first call
createSeededRandom(adapter, seed) ==
  The({[fn |-> adapter,
        currentSeed |-> IF adapter = "gemini" THEN s
                        ELSE IF s % 2147483647 <= 0 THEN (s % 2147483647) + 2147483646
                        ELSE s % 2147483647,
        value |-> Fraction(0, 1)] : s \in {seed}})

\* Math.random, which returns what the engine pleases
MathRandom(v) == [fn |-> "Math.random", currentSeed |-> 0, value |-> v]

\* the values Math.random returns in a run
MathRandoms == {Fraction(1, 4), Fraction(3, 4)}

\* one call of the generator: the generator afterwards, with the value returned.
\* gemini: currentSeed = (currentSeed * 9301 + 49297) % 233280;
\* openai: currentSeed = currentSeed * 16807 % 2147483647, computed without
\* leaving 32 bits (16807 * 127773 + 2836 = 2147483647)
Call(random) ==
  The({IF r.fn = "gemini"
         THEN LET x == r.currentSeed % 233280
                  c == (((x * 93) % 233280) * 100 + x + 49297) % 233280
              IN [r EXCEPT !.currentSeed = c, !.value = Fraction(c, 233280)]
       ELSE IF r.fn = "openai"
         THEN LET t == 16807 * (r.currentSeed % 127773) - 2836 * (r.currentSeed \div 127773)
                  c == IF t < 0 THEN t + 2147483647 ELSE t
              IN [r EXCEPT !.currentSeed = c, !.value = Fraction(c - 1, 2147483646)]
       ELSE r : r \in {random}})

\* the generator after each of n calls in a row
RECURSIVE Calls(_, _)
Calls(random, n) ==
  IF n = 0 THEN <<>> ELSE The({<<r>> \o Calls(r, n - 1) : r \in {Call(random)}})

\* the values as they are printed into the drawing
RECURSIVE Printed(_)
Printed(calls) ==
  IF calls = <<>> THEN ""
  ELSE " " \o ToString(calls[1].value.n) \o "/" \o ToString(calls[1].value.d)
       \o Printed(Tail(calls))

\* n values drawn and printed, and the generator afterwards
Drawn(random, n) ==
  The({[text |-> Printed(calls),
        random |-> IF calls = <<>> THEN random ELSE calls[Len(calls)]] :
         calls \in {Calls(random, n)}})

\* Math.floor(d * p / q), for p < q
FloorMul(d, p, q) == p * (d \div q) + (p * (d % q)) \div q

\* value > p / q
Above(value, p, q) == value.n > FloorMul(value.d, p, q)

\* Math.floor(value * 4): the number of quarters that value reaches
Floor4(value) ==
  Cardinality({k \in 1..3 :
    value.n >= FloorMul(value.d, k, 4) + (IF (k * (value.d % 4)) % 4 = 0 THEN 0 ELSE 1)})

determineMandalaStyle(prompt) ==
  The({IF includes(lowerPrompt, "dot") \/ includes(lowerPrompt, "aboriginal") THEN "dotpainting"
       ELSE IF includes(lowerPrompt, "geometric") \/ includes(lowerPrompt, "sacred") THEN "sacred"
       ELSE IF includes(lowerPrompt, "flower") \/ includes(lowerPrompt, "petal") THEN "floral"
       ELSE "geometric" : lowerPrompt \in {toLowerCase(prompt)}})

\* the palette, named by its outer colour; openai knows more palettes, chosen
\* by the same kind of test
extractColorsFromPrompt(prompt) ==
  IF includes(toLowerCase(prompt), "vibrant") THEN "#9c27b0" ELSE "#1a237e"

\* hueShift, saturationShift and lightnessShift are the first three values
addColorVariation(colors, random) ==
  The({[text |-> colors \o d.text, random |-> d.random] : d \in {Drawn(random, 3)}})

\* an optional seededRandom: `if (!seededRandom) seededRandom = Math.random`
\* (gemini) and `seededRandom || Math.random` (openai); nobody seeds Math.random
AlwaysMathRandom(seededRandom, mathRandom) == MathRandom(mathRandom)

OrMathRandom(seededRandom, mathRandom) ==
  IF seededRandom = Null THEN MathRandom(mathRandom) ELSE seededRandom[1]

\* gemini draws patternSize and finalRadius, openai draws nothing
generatePatterns(adapter, seededRandom, mathRandom) ==
  The({[text |-> "<pattern" \o d.text \o "/>", random |-> d.random] :
         d \in {Drawn(OrMathRandom(seededRandom, mathRandom),
                      IF adapter = "gemini" THEN 2 ELSE 0)}})

\* one dot: dotSize and opacity are printed, colorVariant and the highlight
\* are chosen by the third and the fourth value
Dot(calls) ==
  "<circle" \o Printed(SubSeq(calls, 1, 2))
  \o (IF Above(calls[3].value, 7, 10) THEN " secondary" ELSE " dots") \o "/>"
  \o (IF Above(calls[4].value, 8, 10) THEN "<circle center/>" ELSE "")

\* n dots of one ring, drawn in turn
RECURSIVE Dots(_, _)
Dots(random, n) ==
  IF n = 0 THEN [text |-> "", random |-> random]
  ELSE The({The({[text |-> Dot(calls) \o rest.text, random |-> rest.random] :
                   rest \in {Dots(calls[4], n - 1)}}) :
              calls \in {Calls(random, 4)}})

\* for (let radius = innerRadius; radius <= outerRadius; radius += 4), with
\* dotCount = Math.floor(2 * Math.PI * radius / 8) dots on each ring
RECURSIVE generateDotPaintingRing(_, _, _, _)
generateDotPaintingRing(innerRadius, outerRadius, seededRandom, mathRandom) ==
  IF innerRadius > outerRadius
    THEN [text |-> "", random |-> OrMathRandom(seededRandom, mathRandom)]
  ELSE The({The({[text |-> ring.text \o rest.text, random |-> rest.random] :
                   rest \in {generateDotPaintingRing(
                               innerRadius + 4, outerRadius,
                               IF seededRandom = Null THEN Null ELSE <<ring.random>>,
                               mathRandom)}}) :
              ring \in {Dots(OrMathRandom(seededRandom, mathRandom),
                             Min((314159 * innerRadius) \div 400000, MaxDots))}})

\* Math.max(6, Math.min(24, baseCount + Math.floor((seededRandom() - 0.5) * 4)))
\* with baseCount = attention ? Math.round(8 + (attention / 100) * 16) : 12
PetalCount(brainwaveData, value) ==
  LET baseCount == IF brainwaveData.attention # 0
                     THEN (850 + 16 * brainwaveData.attention) \div 100 ELSE 12
  IN Max(6, Min(24, baseCount + Floor4(value) - 2))

\* gemini: petalCount follows attention and one value, and every petal draws
\* radiusVar, sizeVar, innerRadius, innerSize and two opacities; openai: a ring
\* of dots for the dot painting style, else sixteen petals that draw nothing
generateOuterRing(adapter, style, seededRandom, brainwaveData, mathRandom) ==
  IF adapter = "openai"
    THEN IF style = "dotpainting"
           THEN generateDotPaintingRing(180, 220, seededRandom, mathRandom)
           ELSE [text |-> "<g petals='16'/>", random |-> OrMathRandom(seededRandom, mathRandom)]
  ELSE The({The({[text |-> "<g petals='" \o ToString(PetalCount(brainwaveData, first.value))
                             \o "'" \o d.text \o "/>",
                  random |-> d.random] :
                   d \in {Drawn(first, 6 * Min(PetalCount(brainwaveData, first.value),
                                               MaxDots))}}) :
              first \in {Call(OrMathRandom(seededRandom, mathRandom))}})

\* the drawing: the colours, the patterns and the outer ring; the layers
\* inside the outer ring draw from the same generator in the same way
createSVGMandala(adapter, prompt, brainwaveData, mathRandom) ==
  LET seed == createSeedFromInput(adapter, prompt, brainwaveData)
      seededRandom == createSeededRandom(adapter, seed)
      colors == extractColorsFromPrompt(prompt)
      mandalaStyle == determineMandalaStyle(prompt)
  IN The({The({The({"<svg><defs fill='" \o variantColors.text \o "'>" \o patterns.text
                      \o "</defs>" \o outerRing.text \o "</svg>" :
                      outerRing \in {generateOuterRing(adapter, mandalaStyle,
                                                       <<patterns.random>>, brainwaveData,
                                                       mathRandom)}}) :
                 patterns \in {generatePatterns(adapter, <<variantColors.random>>,
                                                mathRandom)}}) :
            variantColors \in {addColorVariation(colors, seededRandom)}})

\* Buffer.from(text).toString('base64')
Base64(text) == "base64(" \o text \o ")"

\* a fallback that returns the drawing itself instead of a data URL
generateFallbackMandalaSvg(adapter, prompt, brainwaveData, mathRandom) ==
  [imageUrl |-> createSVGMandala(adapter, prompt, brainwaveData, mathRandom), prompt |-> prompt]

generateFallbackMandala(adapter, prompt, brainwaveData, mathRandom) ==
  [imageUrl |-> "data:image/svg+xml;base64,"
                  \o Base64(createSVGMandala(adapter, prompt, brainwaveData, mathRandom)),
   prompt |-> prompt]

\* result.prompt of a cloud answer that has one
CloudPrompt == "cloud prompt"

\* gemini: `/attached_assets/${filename}`; openai: response.data[0].url
CloudImage(adapter) ==
  IF adapter = "gemini" THEN "/attached_assets/mandala_1.png"
  ELSE "https://images.openai.example/mandala.png"

enhancedPrompt(adapter, prompt, brainwaveData) ==
  IF adapter = "gemini"
    THEN "Create an exquisite traditional dot painting mandala masterpiece: "
         \o prompt \o ". "
         \o Band(brainwaveData.attention, "highly intricate", "flowing and organic",
                 "balanced complexity")
         \o Band(brainwaveData.meditation, ", deep, calming colors",
                 ", vibrant, dynamic colors", ", balanced color palette")
         \o (IF brainwaveData.signalQuality < 50 THEN ", mystical atmosphere" ELSE "")
    ELSE "Create a detailed traditional dot painting mandala artwork: " \o prompt \o ". "

\* what one cloud call does: it rejects with an ordinary error, rejects with a
\* quota error (status 429), resolves with a text that is not a JSON object,
\* with no text, with a JSON object without a prompt, or with a prompt
PromptOutcomes == {"error", "quota", "notjson", "notext", "noprompt", "prompt"}

\* ... or resolves without an image or URL, or with one
ImageOutcomes == {"error", "quota", "noimage", "image"}

Outcomes(fn) == IF fn = "prompt" THEN PromptOutcomes ELSE ImageOutcomes

Attempts(fn) == IF fn = "prompt" THEN promptAttempts ELSE imageAttempts

\* a loop that runs once more than its bound
LoopCondOneMore(fn, attempt) == attempt <= Attempts(fn) + 1

\* attempt <= 3, attempt <= 2
LoopCond(fn, attempt) == attempt <= Attempts(fn)

\* the try block of one attempt: Null when it throws, else <<the value returned>>
Try(a, o) ==
  IF a.fn = "prompt"
    THEN IF o \in {"error", "quota", "notjson"} THEN Null
         ELSE LET prompt == IF o = "prompt" THEN CloudPrompt ELSE ""
              IN <<IF prompt # "" THEN prompt ELSE getFallbackPrompt(a.options)>>
  ELSE IF o = "image"
    THEN <<[imageUrl |-> CloudImage(a.adapter),
            prompt |-> enhancedPrompt(a.adapter, a.prompt, a.options.brainwaveData)]>>
  ELSE Null

\* openai.ts: error.code === 'insufficient_quota' || ... || error.status === 429
NoRetry(adapter, o) == adapter = "openai" /\ o = "quota"

\* the catch block: break, wait and continue, or fall through to attempt++
Catch(a, o) ==
  IF NoRetry(a.adapter, o) THEN "break"
  ELSE IF a.attempt < Attempts(a.fn) THEN "wait"
  ELSE "next"

\* a backoff that grows by one second per attempt
BackoffLinear(fn, attempt) == attempt * 1000

\* Math.pow(2, attempt) * 1000, 2000
Backoff(fn, attempt) == IF fn = "prompt" THEN (2 ^ attempt) * 1000 ELSE 2000

\* after the loop: return this.getFallbackPrompt(options) / generateFallbackMandala
Exit(a, mathRandom) ==
  [a EXCEPT !.pc = "done",
            !.result = IF a.fn = "prompt" THEN <<getFallbackPrompt(a.options)>>
                       ELSE <<generateFallbackMandala(a.adapter, a.prompt,
                                                      a.options.brainwaveData, mathRandom)>>]

\* attempt++ and the loop's test
Continue(a, mathRandom) ==
  LET b == [a EXCEPT !.attempt = @ + 1]
  IN IF LoopCond(b.fn, b.attempt) THEN [b EXCEPT !.pc = "call"] ELSE Exit(b, mathRandom)

AiStep(a) ==
  /\ ai' = a
  /\ UNCHANGED <<ns, hist, clients, ws, sent, sessions, mandalas, eegData, gen, resp,
                 env, proto>>

AiOptions ==
  {[voiceTranscript |-> t,
    brainwaveData |-> [attention |-> a, meditation |-> 50, signalQuality |-> q]] :
     t \in {"calm and peace", "hi"}, a \in {20, 80}, q \in {40, 90}}

\* generateMandalaPrompt(options) up to the first cloud call
CallPrompt ==
  /\ ai.pc = "idle"
  /\ \E adapter \in Adapters, options \in AiOptions :
       AiStep([AiIdle EXCEPT !.pc = "call", !.adapter = adapter, !.fn = "prompt",
                             !.options = options, !.attempt = 1])

\* generateMandalaImage(prompt, brainwaveData) up to the first cloud call
CallImage ==
  /\ ai.pc = "idle"
  /\ \E adapter \in Adapters, options \in AiOptions :
       \E prompt \in {CloudPrompt, getFallbackPrompt(options)} :
         AiStep([AiIdle EXCEPT !.pc = "call", !.adapter = adapter, !.fn = "image",
                               !.options = [options EXCEPT !.voiceTranscript = ""],
                               !.prompt = prompt, !.attempt = 1])

\* one pass of the loop body: the cloud call, then the rest of the try block or
\* the catch block
Attempt ==
  /\ ai.pc = "call"
  /\ \E o \in Outcomes(ai.fn), mathRandom \in MathRandoms :
       LET a == [ai EXCEPT !.calls = @ + 1, !.outcomes = Append(@, o)]
           r == Try(a, o)
       IN IF r # Null THEN AiStep([a EXCEPT !.pc = "done", !.result = r])
          ELSE IF Catch(a, o) = "break" THEN AiStep(Exit(a, mathRandom))
          ELSE IF Catch(a, o) = "wait"
            THEN AiStep([a EXCEPT !.pc = "wait",
                                  !.waits = Append(@, Backoff(a.fn, a.attempt))])
          ELSE AiStep(Continue(a, mathRandom))

\* the setTimeout of the catch block fires: continue
Waited ==
  /\ ai.pc = "wait"
  /\ \E mathRandom \in MathRandoms : AiStep(Continue(ai, mathRandom))

\* the caller has the value
Returned ==
  /\ ai.pc = "done"
  /\ AiStep(AiIdle)

InitAI ==
  /\ ns = InitService
  /\ env = Env({}, {}, <<>>, <<>>, <<>>)
  /\ Idle

NextAI ==
  \/ CallPrompt
  \/ CallImage
  \/ Attempt
  \/ Waited
  \/ Returned

\* a cloud call resolves or rejects and a timer fires
SpecAI == InitAI /\ [][NextAI]_vars /\ WF_vars(Attempt) /\ WF_vars(Waited)

InCall(fn) == ai.pc # "idle" /\ ai.fn = fn

AllFailed == \A i \in 1..Len(ai.outcomes) : Try(ai, ai.outcomes[i]) = Null

C3_Safe ==
  InCall("prompt") =>
    /\ ai.calls <= 3
    /\ ai.pc = "done" =>
         /\ ai.result # Null
         /\ ai.result[1] # ""
         /\ AllFailed => ai.result[1] = getFallbackPrompt(ai.options)

\* C3: generateMandalaPrompt, in both adapters, makes at most 3 cloud calls and
\* always returns: what it returns is a non-empty prompt, and the local
\* fallback prompt when every attempt failed.
C3_PromptTerminates ==
  /\ [](C3_Safe)
  /\ (InCall("prompt") ~> (ai.pc = "done"))

\* three attempts failed and the fallback prompt was returned
C3_Witness ==
  /\ InCall("prompt")
  /\ ai.pc = "done"
  /\ ai.calls = 3
  /\ AllFailed
  /\ ai.result = <<getFallbackPrompt(ai.options)>>

StartsWith(text, prefix) ==
  Len(text) >= Len(prefix) /\ SubSeq(text, 1, Len(prefix)) = prefix

C4_Safe ==
  InCall("image") =>
    /\ ai.calls <= 2
    /\ ai.pc = "done" =>
         /\ ai.result # Null
         /\ IF \E i \in 1..Len(ai.outcomes) : ai.outcomes[i] = "image"
              THEN ai.result[1].imageUrl = CloudImage(ai.adapter)
              ELSE /\ StartsWith(ai.result[1].imageUrl, "data:image/svg+xml;base64,")
                   /\ ai.result[1].prompt = ai.prompt

\* C4: generateMandalaImage, in both adapters, makes at most 2 cloud calls and
\* always returns a GeneratedMandala: the cloud image if an attempt succeeded,
\* otherwise the local mandala, whose imageUrl is a data:image/svg+xml;base64 URL.
C4_ImageReturned ==
  /\ [](C4_Safe)
  /\ (InCall("image") ~> (ai.pc = "done"))

\* both attempts were made and failed, and the local mandala was returned
C4_Witness ==
  /\ InCall("image")
  /\ ai.pc = "done"
  /\ ai.calls = 2
  /\ AllFailed
  /\ StartsWith(ai.result[1].imageUrl, "data:image/svg+xml;base64,")


\* the attempts made so far that threw
Failed == {i \in 1..Len(ai.outcomes) : Try(ai, ai.outcomes[i]) = Null}

\* the attempts that threw what OpenAI's catch block takes for a quota or
\* billing error
QuotaFailed == {i \in Failed : ai.adapter = "openai" /\ ai.outcomes[i] = "quota"}

\* the waits after the first n failed attempts, in milliseconds: 2 s then 4 s in
\* generateMandalaPrompt, 2 s in generateMandalaImage
WaitsAfter(fn, n) ==
  SubSeq(IF fn = "prompt" THEN <<2000, 4000>> ELSE <<2000>>, 1, n)

\* one cloud call per attempt, and none after an attempt that succeeded
OneCallPerFailure ==
  /\ ai.calls = Len(ai.outcomes)
  /\ \A i \in 1..(Len(ai.outcomes) - 1) : i \in Failed
  /\ (ai.pc \in {"call", "wait"}) => Failed = 1..Len(ai.outcomes)

\* C23 as stated: a new attempt follows only a failed one and a success returns
\* at once; every failed attempt but the last possible one (the 3rd of
\* generateMandalaPrompt, the 2nd of generateMandalaImage) is followed by its
\* wait of 2 s, then 4 s.
C23_WaitsAfterEveryFailure ==
  ai.pc # "idle" =>
    /\ OneCallPerFailure
    /\ ai.waits = WaitsAfter(ai.fn, Min(Cardinality(Failed), Attempts(ai.fn) - 1))

\* C23: a new attempt follows only a failed one and a success returns at once;
\* every failed attempt but the last possible one is followed by its wait of
\* 2 s, then 4 s, except that in the OpenAI adapter an attempt that failed on a
\* quota or billing error is the last one: no wait and no cloud call follows
\* it.
C23_RetryOnlyAfterFailure ==
  ai.pc # "idle" =>
    /\ OneCallPerFailure
    /\ ai.waits = WaitsAfter(ai.fn, Min(Cardinality(Failed \ QuotaFailed),
                                        Attempts(ai.fn) - 1))
    /\ \A i \in QuotaFailed : i = Len(ai.outcomes) /\ ai.pc = "done"

\* OpenAI's generateMandalaPrompt waited 2 s after a first failure and fell back
\* at once on the quota error of the second attempt
C23_Witness ==
  /\ InCall("prompt")
  /\ ai.adapter = "openai"
  /\ ai.pc = "done"
  /\ ai.outcomes = <<"error", "quota">>
  /\ ai.calls = 2
  /\ ai.waits = <<2000>>
  /\ ai.result = <<getFallbackPrompt(ai.options)>>


MaxRuns == 2          \* calls of the fallback generator with the same arguments

\* the prompts handed to the fallback generator: a cloud prompt, one with
\* capitals and spaces around it, the fallback prompts
FallbackPrompts == {CloudPrompt, "  Sacred Flower "} \cup {getFallbackPrompt(o) : o \in AiOptions}

FallbackData ==
  {[attention |-> a, meditation |-> 50, signalQuality |-> q] : a \in {0, 20, 80}, q \in {40, 90}}

\* generateFallbackMandala(prompt, brainwaveData); a.result collects what the
\* calls with these arguments return
Fallback ==
  /\ ai.pc = "idle"
  /\ \E adapter \in Adapters, prompt \in FallbackPrompts, brainwaveData \in FallbackData,
        mathRandom \in MathRandoms :
       AiStep([AiIdle EXCEPT
                 !.pc = "fallback", !.adapter = adapter, !.fn = "image", !.prompt = prompt,
                 !.options = [voiceTranscript |-> "", brainwaveData |-> brainwaveData],
                 !.calls = 1,
                 !.result = <<generateFallbackMandala(adapter, prompt, brainwaveData,
                                                      mathRandom)>>])

\* the same call once more
FallbackAgain ==
  /\ ai.pc = "fallback"
  /\ ai.calls < MaxRuns
  /\ \E mathRandom \in MathRandoms :
       AiStep([ai EXCEPT
                 !.calls = @ + 1,
                 !.result = Append(@, generateFallbackMandala(ai.adapter, ai.prompt,
                                                              ai.options.brainwaveData,
                                                              mathRandom))])

NextFallback ==
  \/ Fallback
  \/ FallbackAgain

SpecFallback == InitAI /\ [][NextFallback]_vars

\* C12: the fallback generator is deterministic: in both adapters, the calls
\* made with the same prompt and the same brainwaveData return the same imageUrl.
C12_FallbackDeterministic ==
  ai.pc = "fallback" =>
    \A i, j \in 1..Len(ai.result) : ai.result[i].imageUrl = ai.result[j].imageUrl

\* the openai adapter has drawn a ring of dots twice, on a prompt it had to
\* lower-case and trim
C12_Witness ==
  /\ ai.pc = "fallback"
  /\ ai.adapter = "openai"
  /\ ai.prompt = "  Sacred Flower "
  /\ Len(ai.result) = 2
  /\ ai.result[1].imageUrl = ai.result[2].imageUrl


(***************************************************************************)
(* The store (storage.ts) and its REST routes (routes.ts)                  *)
(***************************************************************************)
MaxGen == 1          \* generate requests awaiting the AI service

SessionFields ==
  {"attentionLevel", "meditationLevel", "signalQuality", "voiceTranscript",
   "aiPrompt", "mandalaUrl", "isActive"}

\* a field of a parsed body: insertSession.f ?? null
Field(body, f) == IF f \in DOMAIN body THEN body[f] ELSE Null

createSession(store, insertSession) ==
  MapSet(store, randomUUID(DOMAIN store, SessionIds),
         [f \in SessionFields |->
            IF f = "isActive" THEN <<TRUE>> ELSE Field(insertSession, f)])

\* a lookup that finds a session under every id
getSessionAny(id) == <<[f \in SessionFields |-> Null]>>

getSession(id) == IF id \in DOMAIN sessions THEN <<sessions[id]>> ELSE Null

\* an update that is lost
updateSessionLost(store, id, updates) == store

\* { ...session, ...updates }
updateSession(store, id, updates) ==
  IF id \notin DOMAIN store THEN store
  ELSE MapSet(store, id,
              [f \in SessionFields |->
                 IF f \in DOMAIN updates THEN updates[f] ELSE store[id][f]])

createMandala(store, insertMandala) ==
  MapSet(store, randomUUID(DOMAIN store, MandalaIds), insertMandala)

Answer(route, status) == [route |-> route, status |-> status, connected |-> FALSE]

\* a REST handler that does not run the service
Rest(route, status) ==
  /\ ns' = [ns EXCEPT !.emitted = <<>>]
  /\ resp' = Answer(route, status)
  /\ UNCHANGED <<hist, clients, ws, env, ai, proto>>

\* POST /api/sessions: insertSessionSchema.parse(req.body), storage.createSession
PostSession ==
  \E i \in 1..Len(env.posts) :
    LET body == env.posts[i]
    IN \/ /\ ~body.wellTyped
          /\ Rest("POST /api/sessions", 400)
          /\ sent' = NoneSent
          /\ UNCHANGED <<sessions, mandalas, eegData, gen>>
       \/ /\ body.wellTyped
          /\ Cardinality(DOMAIN sessions) < MaxSessions
          /\ sessions' = createSession(sessions, body.fields)
          /\ Rest("POST /api/sessions", 200)
          /\ sent' = NoneSent
          /\ UNCHANGED <<mandalas, eegData, gen>>

\* PATCH /api/sessions/:id: insertSessionSchema.partial().parse(req.body),
\* storage.updateSession
PatchSession ==
  \E i \in 1..Len(env.patches), id \in SessionIds :
    LET body == env.patches[i]
    IN /\ sessions' = IF body.wellTyped THEN updateSession(sessions, id, body.fields)
                      ELSE sessions
       /\ Rest("PATCH /api/sessions/:id",
               IF ~body.wellTyped THEN 400
               ELSE IF id \notin DOMAIN sessions THEN 404 ELSE 200)
       /\ sent' = NoneSent
       /\ UNCHANGED <<mandalas, eegData, gen>>

\* generateSchema: voiceTranscript min(1), each level min(0).max(100)
GenerateValid(body) ==
  /\ body.wellTyped
  /\ Len(body.voiceTranscript) >= 1
  /\ \A f \in {"attention", "meditation", "signalQuality"} :
       body.brainwaveData[f] >= 0 /\ body.brainwaveData[f] <= 100

\* POST /api/mandalas/generate up to `await geminiService.generateMandalaPrompt`
GenerateRequest(i, id) ==
  LET body == env.generates[i]
  IN /\ IF ~GenerateValid(body)
          THEN Rest("POST /api/mandalas/generate", 500) /\ UNCHANGED gen
        ELSE IF getSession(id) = Null
          THEN Rest("POST /api/mandalas/generate", 404) /\ UNCHANGED gen
        ELSE /\ Len(gen) < MaxGen
             /\ gen' = Append(gen, [sessionId |-> id, body |-> body])
             /\ Rest("none", 0)
     /\ sent' = NoneSent
     /\ UNCHANGED <<sessions, mandalas, eegData>>

\* the request with body i of the run for the session id
GenerateStart == \E i \in 1..Len(env.generates), id \in SessionIds : GenerateRequest(i, id)

\* request bodies: the page load's empty body, a level above the range,
\* a body of the wrong type
Posts ==
  <<[wellTyped |-> TRUE, fields |-> <<>>],
    [wellTyped |-> TRUE, fields |-> [attentionLevel |-> <<150>>]],
    [wellTyped |-> FALSE, fields |-> <<>>]>>

Patches ==
  <<[wellTyped |-> TRUE, fields |-> [isActive |-> <<FALSE>>, signalQuality |-> <<-5>>]],
    [wellTyped |-> FALSE, fields |-> <<>>]>>

Generates ==
  <<[wellTyped |-> TRUE, voiceTranscript |-> "peace",
     brainwaveData |-> [attention |-> 70, meditation |-> 30, signalQuality |-> 90]],
    [wellTyped |-> TRUE, voiceTranscript |-> "",
     brainwaveData |-> [attention |-> 101, meditation |-> 30, signalQuality |-> 90]]>>

\* what geminiService.generateMandalaPrompt(options) can return
PromptResults(options) == {CloudPrompt, getFallbackPrompt(options)}

\* what the gemini adapter draws locally for the requests of a run, whatever
\* Math.random returns; the table has each mandala drawn once
LocalMandalas ==
  UNION {{[prompt |-> prompt, brainwaveData |-> body.brainwaveData,
           mandala |-> generateFallbackMandala("gemini", prompt, body.brainwaveData,
                                               mathRandom)] :
            prompt \in PromptResults([voiceTranscript |-> body.voiceTranscript,
                                      brainwaveData |-> body.brainwaveData]),
            mathRandom \in MathRandoms} :
         body \in {Generates[i] : i \in {k \in 1..Len(Generates) : GenerateValid(Generates[k])}}}

\* what geminiService.generateMandalaImage(prompt, brainwaveData) can return
ImageResults(prompt, brainwaveData) ==
  {[imageUrl |-> CloudImage("gemini"),
    prompt |-> enhancedPrompt("gemini", prompt, brainwaveData)]}
  \cup {m.mandala : m \in {l \in LocalMandalas :
                               l.prompt = prompt /\ l.brainwaveData = brainwaveData}}

Remove(seq, i) == SubSeq(seq, 1, i - 1) \o SubSeq(seq, i + 1, Len(seq))

\* POST /api/mandalas/generate once the AI service has answered: createMandala,
\* updateSession, broadcast, res.json
GenerateAnswer(i) ==
    LET data == gen[i].body
        id == gen[i].sessionId
    IN \E prompt \in PromptResults([voiceTranscript |-> data.voiceTranscript,
                                     brainwaveData |-> data.brainwaveData]) :
       \E generatedMandala \in ImageResults(prompt, data.brainwaveData) :
         /\ Cardinality(DOMAIN mandalas) < MaxMandalas
         /\ mandalas' = createMandala(mandalas,
              [sessionId |-> <<id>>, imageUrl |-> generatedMandala.imageUrl,
               prompt |-> generatedMandala.prompt,
               brainwaveData |-> data.brainwaveData,
               voiceTranscript |-> <<data.voiceTranscript>>])
         /\ sessions' = updateSession(sessions, id,
              [voiceTranscript |-> <<data.voiceTranscript>>,
               aiPrompt |-> <<prompt>>,
               mandalaUrl |-> <<generatedMandala.imageUrl>>,
               attentionLevel |-> <<data.brainwaveData.attention>>,
               meditationLevel |-> <<data.brainwaveData.meditation>>,
               signalQuality |-> <<data.brainwaveData.signalQuality>>])
         /\ sent' = broadcast(NoneSent, [type |-> "mandala_generated"])
         /\ gen' = Remove(gen, i)
         /\ Rest("POST /api/mandalas/generate", 200)
         /\ UNCHANGED eegData

\* the answer to one of the requests that await the AI service
GenerateFinish == \E i \in 1..Len(gen) : GenerateAnswer(i)


InitStore ==
  /\ ns = InitService
  /\ env = Env(ControlMessages, ControlDraws, Posts, Patches, Generates)
  /\ Idle

NextStore ==
  \/ PostSession
  \/ PatchSession
  \/ GenerateStart
  \/ GenerateFinish
  \/ EnableDemo
  \/ DemoTick

SpecStore == InitStore /\ [][NextStore]_vars

Level(x) == x = Null \/ Percent(x[1])

\* C2: whatever sessions are posted, patched and generated for, every stored
\* Session's attentionLevel, meditationLevel and signalQuality is null or
\* within 0..100.
C2_SessionLevelsInRange ==
  \A id \in DOMAIN sessions :
    /\ Level(sessions[id]["attentionLevel"])
    /\ Level(sessions[id]["meditationLevel"])
    /\ Level(sessions[id]["signalQuality"])

Kept(store, store2) == \A id \in DOMAIN store : id \in DOMAIN store2

\* C9: no operation removes a Session, a Mandala or an EegData record: an id
\* that getSession / getMandala finds is found in every later state.
C9_AppendOnly ==
  [][/\ Kept(sessions, sessions')
     /\ Kept(mandalas, mandalas')
     /\ Kept(eegData, eegData')]_vars

\* both sessions exist, one of them was patched and generated for, and samples
\* were stored: every kind of record has been created and the store is full
C9_Witness ==
  /\ DOMAIN sessions = SessionIds
  /\ DOMAIN mandalas # {}
  /\ DOMAIN eegData # {}
  /\ \E id \in DOMAIN sessions : sessions[id]["isActive"] = <<FALSE>>

Same(store, store2) ==
  \A id \in DOMAIN store : id \in DOMAIN store2 /\ store2[id] = store[id]

\* C10: a Mandala and an EegData record stay as they were created, whatever
\* operation follows; Session records are the only ones that change.
C10_MandalaAndEegImmutable ==
  [][Same(mandalas, mandalas') /\ Same(eegData, eegData')]_vars

\* a session has changed after its creation (generated for, then patched)
\* while mandalas and samples are stored
C10_Witness ==
  /\ Cardinality(DOMAIN mandalas) = MaxMandalas
  /\ DOMAIN eegData # {}
  /\ \E id \in DOMAIN sessions :
       /\ sessions[id]["mandalaUrl"] # Null
       /\ sessions[id]["signalQuality"] = <<-5>>

\* the records a handler has added to the EegData map
NewEeg == DOMAIN eegData' \ DOMAIN eegData

\* the record the 'data' listener stores for session sid and sample d
EegRecord(sid, d) ==
  [sessionId |-> <<sid>>, attention |-> d.attention, meditation |-> d.meditation,
   signalQuality |-> d.signalQuality]

\* how many of the handler's 'data' events carry sample d
Emitted(evs, d) == Len(SelectSeq(evs, LAMBDA e : e.type = "data" /\ e.data = d))

\* C11: a handler stores, for each 'data' event it emitted and each session
\* that is active, exactly one EegData record with the event's attention,
\* meditation and signalQuality and the session's id, and stores nothing else:
\* nothing for an inactive session.
C11_EegStoredPerActiveSession ==
  [][/\ \A id \in NewEeg :
          \E sid \in DOMAIN sessions, i \in 1..Len(ns'.emitted) :
            /\ ns'.emitted[i].type = "data"
            /\ sessions[sid]["isActive"] = <<TRUE>>
            /\ eegData'[id] = EegRecord(sid, ns'.emitted[i].data)
     /\ \A sid \in DOMAIN sessions, i \in 1..Len(ns'.emitted) :
          ns'.emitted[i].type = "data" =>
            Cardinality({id \in NewEeg :
                           eegData'[id] = EegRecord(sid, ns'.emitted[i].data)})
              = IF sessions[sid]["isActive"] = <<TRUE>>
                  THEN Emitted(ns'.emitted, ns'.emitted[i].data) ELSE 0]_vars

\* a sample was emitted while one session was active and another was not: the
\* store holds a record of the active one and none of the other
C11_Witness ==
  /\ DataEvents(ns.emitted) # <<>>
  /\ \E a, b \in DOMAIN sessions :
       /\ sessions[a]["isActive"] = <<TRUE>>
       /\ sessions[b]["isActive"] = <<FALSE>>
       /\ \E id \in DOMAIN eegData :
            eegData[id] = EegRecord(a, DataEvents(ns.emitted)[1].data)
       /\ \A id \in DOMAIN eegData : eegData[id].sessionId # <<b>>


\* the generate route with clients on the WebSocket
NextGenerate ==
  \/ WsConnection
  \/ PostSession
  \/ GenerateStart
  \/ GenerateFinish

SpecGenerate == InitStore /\ [][NextGenerate]_vars

\* a message of this type was sent to some client in the step
Broadcast(type) ==
  \E c \in WsIds : \E k \in 1..Len(sent'[c]) : sent'[c][k].type = type

\* C13: POST /api/mandalas/generate with a sessionId that names no session or
\* with a body the schema rejects answers with an error status, changes no
\* session, mandala or EEG record, and broadcasts no mandala_generated message.
C13_RejectedGenerateChangesNothing ==
  [][\A i \in 1..Len(env.generates), id \in SessionIds :
       (/\ GenerateRequest(i, id)
        /\ ~GenerateValid(env.generates[i]) \/ id \notin DOMAIN sessions)
         => /\ resp'.route = "POST /api/mandalas/generate"
            /\ resp'.status >= 400
            /\ UNCHANGED <<sessions, mandalas, eegData, gen>>
            /\ ~Broadcast("mandala_generated")]_vars

\* a request for a session that does not exist was answered 404 while sessions
\* and mandalas were stored and a client was listening
C13_Witness ==
  /\ resp.route = "POST /api/mandalas/generate"
  /\ resp.status = 404
  /\ sessions # <<>>
  /\ mandalas # <<>>
  /\ \E c \in clients : ws[c].readyState = "OPEN"


\* the message was sent in the step to every client that is connected and open
SentToAll(type) ==
  \A c \in clients :
    ws[c].readyState = "OPEN" => \E k \in 1..Len(sent'[c]) : sent'[c][k].type = type

\* C24: the answer to a valid POST /api/mandalas/generate for an existing
\* session adds exactly one Mandala, whose sessionId is that session, sets the
\* session's voiceTranscript, attentionLevel, meditationLevel and signalQuality
\* to the request's values and its mandalaUrl to the new Mandala's imageUrl,
\* leaves every other session and mandala as it was, and broadcasts
\* mandala_generated and answers 200 with both store updates done; no other
\* step broadcasts mandala_generated or answers 200 on this route.
C24_GenerateStoresThenBroadcasts ==
  /\ [][\A i \in 1..Len(gen) :
         GenerateAnswer(i) =>
           LET id == gen[i].sessionId
               data == gen[i].body
           IN /\ \E m \in DOMAIN mandalas' \ DOMAIN mandalas :
                   /\ DOMAIN mandalas' = DOMAIN mandalas \cup {m}
                   /\ mandalas'[m].sessionId = <<id>>
                   /\ sessions'[id].mandalaUrl = <<mandalas'[m].imageUrl>>
              /\ \A m \in DOMAIN mandalas : mandalas'[m] = mandalas[m]
              /\ sessions'[id].voiceTranscript = <<data.voiceTranscript>>
              /\ sessions'[id].attentionLevel = <<data.brainwaveData.attention>>
              /\ sessions'[id].meditationLevel = <<data.brainwaveData.meditation>>
              /\ sessions'[id].signalQuality = <<data.brainwaveData.signalQuality>>
              /\ DOMAIN sessions' = DOMAIN sessions
              /\ \A s \in DOMAIN sessions \ {id} : sessions'[s] = sessions[s]
              /\ SentToAll("mandala_generated")
              /\ resp' = Answer("POST /api/mandalas/generate", 200)]_vars
  /\ [][(\/ Broadcast("mandala_generated")
         \/ resp' = Answer("POST /api/mandalas/generate", 200))
          => \E i \in 1..Len(gen) : GenerateAnswer(i)]_vars

\* a second mandala was generated for one of two sessions while a client was
\* listening: the client has the message, the other session has no transcript
C24_Witness ==
  /\ resp = Answer("POST /api/mandalas/generate", 200)
  /\ Cardinality(DOMAIN mandalas) = 2
  /\ Cardinality(DOMAIN sessions) = 2
  /\ \E id \in DOMAIN sessions :
       /\ sessions[id].voiceTranscript # Null
       /\ \A m \in DOMAIN mandalas : mandalas[m].sessionId = <<id>>
       /\ \E m \in DOMAIN mandalas : sessions[id].mandalaUrl = <<mandalas[m].imageUrl>>
       /\ \E s \in DOMAIN sessions \ {id} : sessions[s].voiceTranscript = Null
  /\ \E c \in clients :
       /\ ws[c].readyState = "OPEN"
       /\ \E k \in 1..Len(sent[c]) : sent[c][k].type = "mandala_generated"


(***************************************************************************)
(* The ThinkGear byte stream and socket.on('data') (neurosky.ts)           *)
(***************************************************************************)
MaxMessages == 2     \* messages the ThinkGear Connector writes in a run

\* the JSON texts the ThinkGear Connector writes, and what JSON.parse makes of
\* each
Bodies ==
  <<[text |-> "{\"status\":\"success\"}",
     message |-> [NoFields EXCEPT !.status = "success"]],
    [text |-> "{\"poorSignalLevel\":0}",
     message |-> Only("poorSignalLevel", 0)]>>

Digits == {"0", "1", "2", "3", "4", "5", "6", "7", "8", "9"}

\* a JSON number or a JSON string on its own: a value without fields
IsScalar(text) ==
  \/ text # "" /\ \A i \in 1..Len(text) : Char(text, i) \in Digits
  \/ /\ Len(text) >= 2
     /\ Char(text, 1) = "\"" /\ Char(text, Len(text)) = "\""
     /\ \A i \in 2..(Len(text) - 1) : Char(text, i) # "\""

\* JSON.parse(line): Null when it throws, else <<the value>>
JSONparse(line) ==
  IF \E i \in DOMAIN Bodies : Bodies[i].text = line
    THEN <<Bodies[CHOOSE i \in DOMAIN Bodies : Bodies[i].text = line].message>>
  ELSE IF IsScalar(line) THEN <<NoFields>>
  ELSE Null

\* data.toString().trim().split('\n').filter(line => line.trim())
Lines(data) == SelectSeq(split(trim(data), "\n"), LAMBDA line : trim(line) # "")

\* for (const line of lines) try { handleThinkGearMessage(JSON.parse(line)) }
\* catch (parseError) { console.error(...) }
RECURSIVE HandleLines(_, _)
HandleLines(s, lines) ==
  IF lines = <<>> THEN s
  ELSE LET message == JSONparse(Head(lines))
       IN HandleLines(IF message = Null THEN s
                      ELSE handleThinkGearMessage(s, message[1]),
                      Tail(lines))

\* the lines that reached handleThinkGearMessage
Passed(lines) == SelectSeq(lines, LAMBDA line : JSONparse(line) # Null)

\* the ThinkGear Connector writes one message and its newline to the socket
ConnectorWrites ==
  /\ Running
  /\ \E k \in SockIds : ns.socks[k] = "open"
  /\ Len(proto.written) < MaxMessages
  /\ \E i \in DOMAIN Bodies :
       proto' = [proto EXCEPT !.stream = @ \o Bodies[i].text \o "\n",
                              !.written = Append(@, Bodies[i].text)]
  /\ UNCHANGED <<ns, hist, clients, ws, sent, sessions, mandalas, eegData, gen, resp,
                 env, ai>>

\* socket.on('data') with the next n bytes of the stream
SocketChunk ==
  /\ Running
  /\ \E k \in SockIds, n \in 1..Len(proto.stream) :
       /\ ns.socks[k] = "open"
       /\ LET lines == Lines(SubSeq(proto.stream, 1, n))
              s1 == HandleLines(Begin, lines)
          IN /\ Listeners(s1, <<>>, NoResp,
                          [hist EXCEPT !.lost = @ /\ ~(~ns.isAuthenticated
                                                        /\ s1.isAuthenticated),
                                       !.success =
                                         IF \E i \in DOMAIN lines :
                                              /\ JSONparse(lines[i]) # Null
                                              /\ JSONparse(lines[i])[1].status = "success"
                                           THEN @ \cup {k} ELSE @])
             /\ proto' = [proto EXCEPT !.stream = SubSeq(@, n + 1, Len(@)),
                                       !.passed = @ \o Passed(lines)]

\* connect() found the ThinkGear Connector and the socket's 'connect' event
\* has come
ConnectedService ==
  [InitService EXCEPT !.socket = 1, !.socks[1] = "open", !.isConnected = TRUE]

InitProto ==
  /\ ns = ConnectedService
  /\ env = Env({}, {}, <<>>, <<>>, <<>>)
  /\ Idle

NextProto ==
  \/ ConnectorWrites
  \/ SocketChunk

SpecProto == InitProto /\ [][NextProto]_vars

IsPrefix(s, t) == Len(s) <= Len(t) /\ SubSeq(t, 1, Len(s)) = s

\* C8: the messages passed to handleThinkGearMessage are, in order, the
\* messages the ThinkGear Connector has written, each once: a prefix of them
\* while bytes are in flight, all of them once every byte has arrived,
\* however the stream was cut into chunks.
C8_LineProtocol ==
  /\ IsPrefix(proto.passed, proto.written)
  /\ proto.stream = "" => proto.passed = proto.written

====
